---------------------------- MODULE Spec2Model ----------------------------
(***************************************************************************)
(* fastapi-response-boost: a cache-aside decorator (decorator.py) around   *)
(* the user endpoint (app.py), backed by a Redis store reached through     *)
(* get(key) and set(key, value, ttl).                                      *)
(*                                                                         *)
(* Python values are tagged records: None, bool, int, float, str, list,    *)
(* dict (an ordered sequence of <<key, value>> items with string keys) and *)
(* raised exceptions.  Text is kept as strings, so cache keys and JSON     *)
(* documents are the very strings the program builds.                      *)
(***************************************************************************)
EXTENDS Integers, Sequences, FiniteSets, TLC

(***************************************************************************)
(* Bounds of the model.                                                    *)
(***************************************************************************)
\* Request tasks: each request is handled by a task of its own, which runs one
\* invocation of a wrapped handler.  Tasks are numbered in the order the
\* requests arrive.
NumTasks == 2
\* Seconds the clock advances in one step, and the last instant it reaches.
TickStep == 60
MaxTime == 150

Tasks == 1..NumTasks
\* Identifiers requested: 0 and 99 have no record, 1 has one.
Ids == {0, 1, 99}

(***************************************************************************)
(* Python values.                                                          *)
(***************************************************************************)
None == [t |-> "None"]
PyInt(n) == [t |-> "int", v |-> n]
PyStr(s) == [t |-> "str", v |-> s]
PyBool(b) == [t |-> "bool", v |-> b]
PyList(items) == [t |-> "list", items |-> items]
PyDict(items) == [t |-> "dict", items |-> items]

\* A finite float is the decimal 0.d1d2...dn * 10^decpt with its sign: digits
\* holds d1...dn, at most 15 of them, without leading or trailing zeros (a
\* decimal of at most 15 digits names one double, and repr() writes a double
\* with the fewest digits that name it); zero is "0" with decpt 1.
PyFloat(neg, digits, decpt) ==
    [t |-> "float", k |-> "fin", neg |-> neg, digits |-> digits, decpt |-> decpt]
PyNaN == [t |-> "float", k |-> "nan", neg |-> FALSE, digits |-> "", decpt |-> 0]
PyInf(neg) == [t |-> "float", k |-> "inf", neg |-> neg, digits |-> "", decpt |-> 0]

\* bool(x) as `or`, `if x` and `not x` use it.
Truthy(x) ==
    CASE x.t = "None" -> FALSE
      [] x.t = "int" -> x.v # 0
      [] x.t = "float" -> ~(x.k = "fin" /\ x.digits = "0")
      [] x.t = "str" -> x.v # ""
      [] x.t = "bool" -> x.v
      [] x.t \in {"dict", "list"} -> x.items # <<>>

\* An exception propagating out of a call, and a value returned from it.
Raise(exc, status_code, detail) ==
    [t |-> "raise", exc |-> exc, status_code |-> status_code, detail |-> detail]
Return(v) == [t |-> "return", v |-> v]

HTTPException(status_code, detail) == Raise("HTTPException", status_code, detail)
IndexError == Raise("IndexError", 0, "tuple index out of range")
TypeError == Raise("TypeError", 0, "bad call arguments")
Unhashable == Raise("TypeError", 0, "unhashable type")

\* What an operation gives when its result is a value the model cannot hold:
\* an int of more than nine digits, a float of more than 15 digits or outside
\* 1e-307..1e308, a character outside the model's alphabet.
NotModelled == Raise("NotModelled", 0, "value outside the model's universe")

(***************************************************************************)
(* str(int): decimal digits.                                               *)
(***************************************************************************)
Digit(d) ==
    CASE d = 0 -> "0" [] d = 1 -> "1" [] d = 2 -> "2" [] d = 3 -> "3"
      [] d = 4 -> "4" [] d = 5 -> "5" [] d = 6 -> "6" [] d = 7 -> "7"
      [] d = 8 -> "8" [] d = 9 -> "9"

RECURSIVE NatStr(_)
NatStr(n) == IF n < 10 THEN Digit(n) ELSE NatStr(n \div 10) \o Digit(n % 10)

\* A digit loop that emits the digits lowest first and never reverses them.
RECURSIVE NatStrReversed(_)
NatStrReversed(n) ==
    IF n < 10 THEN Digit(n) ELSE Digit(n % 10) \o NatStrReversed(n \div 10)
IntStrReversed(n) == IF n < 0 THEN "-" \o NatStrReversed(0 - n) ELSE NatStrReversed(n)

IntStr(n) == IF n < 0 THEN "-" \o NatStr(0 - n) ELSE NatStr(n)

Char(s, i) == SubSeq(s, i, i)

RECURSIVE Zeros(_)
Zeros(n) == IF n <= 0 THEN "" ELSE "0" \o Zeros(n - 1)

RECURSIVE StripLeft0(_)
StripLeft0(d) == IF d # "" /\ Char(d, 1) = "0" THEN StripLeft0(SubSeq(d, 2, Len(d))) ELSE d

RECURSIVE StripRight0(_)
StripRight0(d) ==
    IF d # "" /\ Char(d, Len(d)) = "0" THEN StripRight0(SubSeq(d, 1, Len(d) - 1)) ELSE d

(***************************************************************************)
(* float.__repr__: the digits with the point in place when the point lies  *)
(* within -4 < decpt <= 16, else d.ddde+XX with two exponent digits or     *)
(* more.                                                                   *)
(***************************************************************************)
float_repr(x) ==
    CASE x.k = "nan" -> "nan"
      [] x.k = "inf" -> IF x.neg THEN "-inf" ELSE "inf"
      [] x.k = "fin" ->
           LET d == x.digits
               n == Len(d)
               e == x.decpt - 1
               mag == IF e < 0 THEN 0 - e ELSE e
               body ==
                   IF x.decpt > 16 \/ x.decpt <= -4
                   THEN Char(d, 1) \o (IF n > 1 THEN "." \o SubSeq(d, 2, n) ELSE "")
                        \o "e" \o (IF e < 0 THEN "-" ELSE "+")
                        \o (IF mag < 10 THEN "0" ELSE "") \o NatStr(mag)
                   ELSE IF x.decpt <= 0 THEN "0." \o Zeros(0 - x.decpt) \o d
                   ELSE IF x.decpt < n
                        THEN SubSeq(d, 1, x.decpt) \o "." \o SubSeq(d, x.decpt + 1, n)
                   ELSE d \o Zeros(x.decpt - n) \o ".0"
           IN (IF x.neg THEN "-" ELSE "") \o body

\* float(n) for an int n.
IntToFloat(n) ==
    LET t == NatStr(IF n < 0 THEN 0 - n ELSE n)
    IN IF n = 0 THEN PyFloat(FALSE, "0", 1) ELSE PyFloat(n < 0, StripRight0(t), Len(t))

\* a == b between numbers: a bool counts as 0 or 1, an int and a float are
\* compared by value, the two zeros are equal, nan equals nothing.
IsNumber(x) == x.t \in {"bool", "int", "float"}
AsFloat(x) ==
    CASE x.t = "float" -> x
      [] x.t = "int" -> IntToFloat(x.v)
      [] x.t = "bool" -> IntToFloat(IF x.v THEN 1 ELSE 0)
NumEq(a, b) ==
    IF a.t = "int" /\ b.t = "int" THEN a.v = b.v
    ELSE LET fa == AsFloat(a)
             fb == AsFloat(b)
         IN /\ fa.k # "nan" /\ fb.k # "nan"
            /\ \/ fa = fb
               \/ fa.k = "fin" /\ fb.k = "fin" /\ fa.digits = "0" /\ fb.digits = "0"

(***************************************************************************)
(* repr(x) and str(x).                                                     *)
(***************************************************************************)
HasChar(s, c) == \E i \in 1..Len(s) : Char(s, i) = c

RECURSIVE str_repr_body(_, _)
str_repr_body(s, quote) ==
    IF s = "" THEN ""
    ELSE LET c == Char(s, 1)
             e == CASE c = quote -> "\\" \o c
                    [] c = "\\" -> "\\\\"
                    [] c = "\n" -> "\\n"
                    [] c = "\r" -> "\\r"
                    [] c = "\t" -> "\\t"
                    [] c = "\f" -> "\\x0c"
                    [] OTHER -> c
         IN e \o str_repr_body(SubSeq(s, 2, Len(s)), quote)

\* Single quotes, unless the text holds a single quote and no double quote.
str_repr(s) ==
    LET quote == IF HasChar(s, "'") /\ ~HasChar(s, "\"") THEN "\"" ELSE "'"
    IN quote \o str_repr_body(s, quote) \o quote

RECURSIVE py_repr(_)
RECURSIVE ReprElems(_, _)
ReprElems(items, i) ==
    IF i > Len(items) THEN ""
    ELSE (IF i > 1 THEN ", " ELSE "") \o py_repr(items[i]) \o ReprElems(items, i + 1)

RECURSIVE ReprItems(_, _)
ReprItems(items, i) ==
    IF i > Len(items) THEN ""
    ELSE (IF i > 1 THEN ", " ELSE "")
         \o str_repr(items[i][1]) \o ": " \o py_repr(items[i][2])
         \o ReprItems(items, i + 1)

py_repr(x) ==
    CASE x.t = "int" -> IntStr(x.v)
      [] x.t = "float" -> float_repr(x)
      [] x.t = "str" -> str_repr(x.v)
      [] x.t = "bool" -> IF x.v THEN "True" ELSE "False"
      [] x.t = "None" -> "None"
      [] x.t = "list" -> "[" \o ReprElems(x.items, 1) \o "]"
      [] x.t = "dict" -> "{" \o ReprItems(x.items, 1) \o "}"

\* format(x) inside an f-string: str(x).
PyStrOf(x) == IF x.t = "str" THEN x.v ELSE py_repr(x)

(***************************************************************************)
(* The characters of the model's text: printable ASCII and the four        *)
(* control characters a string literal can hold.  Backspace, the other     *)
(* control characters, the backquote, DEL and non-ASCII characters have no *)
(* string in the model; an operation that would have to produce one gives  *)
(* NotModelled instead of a value.                                         *)
(***************************************************************************)
\* Code points 32..126, the backquote (96) held by a space.
Printable ==
    " !\"#$%&'()*+,-./0123456789:;<=>?@ABCDEFGHIJKLMNOPQRSTUVWXYZ[\\]^_ abcdefghijklmnopqrstuvwxyz{|}~"

InAlphabet(n) == (n >= 32 /\ n <= 126 /\ n # 96) \/ n \in {9, 10, 12, 13}

\* chr(n), for n in the alphabet.
chr(n) ==
    CASE n = 9 -> "\t" [] n = 10 -> "\n" [] n = 12 -> "\f" [] n = 13 -> "\r"
      [] OTHER -> Char(Printable, n - 31)

IsControl(c) == c \in {"\t", "\n", "\f", "\r"}

(***************************************************************************)
(* json.dumps with its defaults: items joined by ", ", key and value by    *)
(* ": ", strings quoted, with the quote, the backslash and the control     *)
(* characters escaped.                                                     *)
(***************************************************************************)
RECURSIVE py_encode_basestring_ascii(_)
py_encode_basestring_ascii(s) ==
    IF s = "" THEN ""
    ELSE LET c == Char(s, 1)
             e == CASE c = "\"" -> "\\\""
                    [] c = "\\" -> "\\\\"
                    [] c = "\n" -> "\\n"
                    [] c = "\r" -> "\\r"
                    [] c = "\t" -> "\\t"
                    [] c = "\f" -> "\\f"
                    [] OTHER -> c
         IN e \o py_encode_basestring_ascii(SubSeq(s, 2, Len(s)))

RECURSIVE json_dumps(_)
RECURSIVE DumpItems(_, _)
DumpItems(items, i) ==
    IF i > Len(items) THEN ""
    ELSE (IF i > 1 THEN ", " ELSE "")
         \o "\"" \o py_encode_basestring_ascii(items[i][1]) \o "\": "
         \o json_dumps(items[i][2])
         \o DumpItems(items, i + 1)

RECURSIVE DumpElems(_, _)
DumpElems(items, i) ==
    IF i > Len(items) THEN ""
    ELSE (IF i > 1 THEN ", " ELSE "") \o json_dumps(items[i]) \o DumpElems(items, i + 1)

json_dumps(x) ==
    CASE x.t = "dict" -> "{" \o DumpItems(x.items, 1) \o "}"
      [] x.t = "list" -> "[" \o DumpElems(x.items, 1) \o "]"
      [] x.t = "int" -> IntStr(x.v)
      [] x.t = "float" ->
           IF x.k = "nan" THEN "NaN"
           ELSE IF x.k = "inf" THEN (IF x.neg THEN "-Infinity" ELSE "Infinity")
           ELSE float_repr(x)
      [] x.t = "str" -> "\"" \o py_encode_basestring_ascii(x.v) \o "\""
      [] x.t = "bool" -> IF x.v THEN "true" ELSE "false"
      [] x.t = "None" -> "null"

(***************************************************************************)
(* json.loads: a scanner over the text.  Each Scan operator returns the   *)
(* value read and the position after it; text that is no JSON document     *)
(* gives JSONDecodeError.                                                  *)
(***************************************************************************)
JSONDecodeError == Raise("JSONDecodeError", 0, "Expecting value")

IsDigit(c) == c \in {"0", "1", "2", "3", "4", "5", "6", "7", "8", "9"}
DigitVal(c) == CHOOSE d \in 0..9 : Digit(d) = c
IsHex(c) ==
    IsDigit(c) \/ c \in {"a", "b", "c", "d", "e", "f", "A", "B", "C", "D", "E", "F"}
HexVal(c) ==
    CASE IsDigit(c) -> DigitVal(c)
      [] c \in {"a", "A"} -> 10 [] c \in {"b", "B"} -> 11 [] c \in {"c", "C"} -> 12
      [] c \in {"d", "D"} -> 13 [] c \in {"e", "E"} -> 14 [] c \in {"f", "F"} -> 15
IsWs(c) == c \in {" ", "\t", "\n", "\r"}
Parsed(v, next) == [v |-> v, next |-> next]
Failed(s) == Parsed(JSONDecodeError, Len(s) + 2)
\* Stands, while a document is scanned, for a value the model cannot hold; the
\* scan goes on past it, as the code's does.
Unmodelled == [t |-> "unmodelled"]

\* s[i:].startswith(lit)
StartsWith(s, i, lit) ==
    i + Len(lit) - 1 <= Len(s) /\ SubSeq(s, i, i + Len(lit) - 1) = lit

RECURSIVE SkipWs(_, _)
SkipWs(s, i) == IF i <= Len(s) /\ IsWs(Char(s, i)) THEN SkipWs(s, i + 1) ELSE i

\* The four hexadecimal digits of a \uXXXX escape, from position i.
DecodeUXXXX(s, i) ==
    IF i + 3 <= Len(s) /\ \A j \in i..(i + 3) : IsHex(Char(s, j))
    THEN 4096 * HexVal(Char(s, i)) + 256 * HexVal(Char(s, i + 1))
         + 16 * HexVal(Char(s, i + 2)) + HexVal(Char(s, i + 3))
    ELSE -1

\* The characters after an opening quote, up to the closing one (strict: a
\* control character in the text is an error).  ok is FALSE once the text
\* holds a character outside the alphabet.
RECURSIVE ScanString(_, _, _, _)
ScanString(s, i, acc, ok) ==
    IF i > Len(s) THEN Failed(s)
    ELSE LET c == Char(s, i) IN
         CASE c = "\"" -> Parsed(IF ok THEN PyStr(acc) ELSE Unmodelled, i + 1)
           [] c = "\\" ->
                IF i + 1 > Len(s) THEN Failed(s)
                ELSE LET e == Char(s, i + 1) IN
                     CASE e = "u" ->
                            LET n == DecodeUXXXX(s, i + 2)
                            IN IF n < 0 THEN Failed(s)
                               ELSE IF InAlphabet(n)
                                    THEN ScanString(s, i + 6, acc \o chr(n), ok)
                                    ELSE ScanString(s, i + 6, acc, FALSE)
                       [] e \in {"\"", "\\", "/"} -> ScanString(s, i + 2, acc \o e, ok)
                       [] e = "n" -> ScanString(s, i + 2, acc \o "\n", ok)
                       [] e = "r" -> ScanString(s, i + 2, acc \o "\r", ok)
                       [] e = "t" -> ScanString(s, i + 2, acc \o "\t", ok)
                       [] e = "f" -> ScanString(s, i + 2, acc \o "\f", ok)
                       [] e = "b" -> ScanString(s, i + 2, acc, FALSE)
                       [] OTHER -> Failed(s)
           [] IsControl(c) -> Failed(s)
           [] OTHER -> ScanString(s, i + 1, acc \o c, ok)

\* The position after the digits that start at i.
RECURSIVE DigitsEnd(_, _)
DigitsEnd(s, i) == IF i <= Len(s) /\ IsDigit(Char(s, i)) THEN DigitsEnd(s, i + 1) ELSE i

\* int(text) for a text of at most nine digits.
RECURSIVE StrToNat(_)
StrToNat(d) ==
    IF d = "" THEN 0
    ELSE 10 * StrToNat(SubSeq(d, 1, Len(d) - 1)) + DigitVal(Char(d, Len(d)))

\* Texts longer than this are not scanned as numbers.
MaxNumberLen == 400

\* float(text) for the integer digits ip, the fraction digits fp and the
\* exponent digits ep of a literal: 1e309 and above is inf, below 1e-324 is
\* zero.
MakeFloat(neg, ip, fp, expNeg, ep) ==
    LET all == ip \o fp
        noLead == StripLeft0(all)
        digits == StripRight0(noLead)
        et == StripLeft0(ep)
        huge == Len(et) > 3
        ex == IF huge THEN 1000 ELSE StrToNat(et)
        decpt == Len(ip) - (Len(all) - Len(noLead)) + (IF expNeg THEN 0 - ex ELSE ex)
    IN IF noLead = "" THEN PyFloat(neg, "0", 1)
       ELSE IF Len(all) > MaxNumberLen THEN Unmodelled
       ELSE IF decpt >= 310 THEN PyInf(neg)
       ELSE IF decpt <= -324 THEN PyFloat(neg, "0", 1)
       ELSE IF decpt > 308 \/ decpt < -306 \/ Len(digits) > 15 THEN Unmodelled
       ELSE PyFloat(neg, digits, decpt)

\* -?(0|[1-9]\d*)(\.\d+)?([eE][-+]?\d+)? : int() of the text when there is
\* neither a fraction nor an exponent, else float() of it.
ScanNumber(s, i) ==
    LET neg == Char(s, i) = "-"
        j == IF neg THEN i + 1 ELSE i
    IN IF j > Len(s) \/ ~IsDigit(Char(s, j)) THEN Failed(s)
       ELSE LET d == IF Char(s, j) = "0" THEN j + 1 ELSE DigitsEnd(s, j)
                hasFrac == /\ d + 1 <= Len(s) /\ Char(s, d) = "."
                           /\ IsDigit(Char(s, d + 1))
                f == IF hasFrac THEN DigitsEnd(s, d + 1) ELSE d
                signed == f + 1 <= Len(s) /\ Char(s, f + 1) \in {"+", "-"}
                x == IF signed THEN f + 2 ELSE f + 1
                hasExp == /\ f <= Len(s) /\ Char(s, f) \in {"e", "E"}
                          /\ x <= Len(s) /\ IsDigit(Char(s, x))
                e == IF hasExp THEN DigitsEnd(s, x) ELSE f
                ip == SubSeq(s, j, d - 1)
            IN IF hasFrac \/ hasExp
               THEN Parsed(MakeFloat(neg, ip,
                                     IF hasFrac THEN SubSeq(s, d + 1, f - 1) ELSE "",
                                     hasExp /\ signed /\ Char(s, f + 1) = "-",
                                     IF hasExp THEN SubSeq(s, x, e - 1) ELSE ""), e)
               ELSE IF Len(ip) > 9 THEN Parsed(Unmodelled, d)
               ELSE Parsed(PyInt(IF neg THEN 0 - StrToNat(ip) ELSE StrToNat(ip)), d)

\* dict(pairs): a key given again keeps its place and takes the later value.
RECURSIVE dict(_, _, _)
dict(pairs, i, acc) ==
    IF i > Len(pairs) THEN acc
    ELSE LET k == pairs[i][1]
         IN IF \E j \in 1..Len(acc) : acc[j][1] = k
            THEN dict(pairs, i + 1,
                      [j \in 1..Len(acc) |-> IF acc[j][1] = k THEN pairs[i] ELSE acc[j]])
            ELSE dict(pairs, i + 1, Append(acc, pairs[i]))

RECURSIVE ScanValue(_, _)
RECURSIVE ScanItems(_, _, _, _)
\* After "{" or ",": a quoted key, ":", a value, then "," or "}".  ok is FALSE
\* once a key is outside the model.
ScanItems(s, i0, acc, ok) ==
    LET i == SkipWs(s, i0) IN
    IF i > Len(s) \/ Char(s, i) # "\"" THEN Failed(s)
    ELSE LET k == ScanString(s, i + 1, "", TRUE)
             c == SkipWs(s, k.next)
         IN IF k.v.t = "raise" THEN k
            ELSE IF c > Len(s) \/ Char(s, c) # ":" THEN Failed(s)
            ELSE LET val == ScanValue(s, c + 1)
                     e == SkipWs(s, val.next)
                     known == k.v.t = "str"
                     items == IF known THEN Append(acc, <<k.v.v, val.v>>) ELSE acc
                 IN IF val.v.t = "raise" THEN val
                    ELSE IF e > Len(s) THEN Failed(s)
                    ELSE CASE Char(s, e) = "," -> ScanItems(s, e + 1, items, ok /\ known)
                           [] Char(s, e) = "}" ->
                                Parsed(IF ok /\ known THEN PyDict(dict(items, 1, <<>>))
                                       ELSE Unmodelled, e + 1)
                           [] OTHER -> Failed(s)

RECURSIVE ScanElems(_, _, _)
\* After "[" or ",": a value, then "," or "]".
ScanElems(s, i0, acc) ==
    LET val == ScanValue(s, i0)
        e == SkipWs(s, val.next)
    IN IF val.v.t = "raise" THEN val
       ELSE IF e > Len(s) THEN Failed(s)
       ELSE CASE Char(s, e) = "," -> ScanElems(s, e + 1, Append(acc, val.v))
              [] Char(s, e) = "]" -> Parsed(PyList(Append(acc, val.v)), e + 1)
              [] OTHER -> Failed(s)

ScanValue(s, i0) ==
    LET i == SkipWs(s, i0) IN
    IF i > Len(s) THEN Failed(s)
    ELSE LET c == Char(s, i) IN
         CASE c = "{" ->
                LET j == SkipWs(s, i + 1)
                IN IF j <= Len(s) /\ Char(s, j) = "}"
                   THEN Parsed(PyDict(<<>>), j + 1)
                   ELSE ScanItems(s, i + 1, <<>>, TRUE)
           [] c = "[" ->
                LET j == SkipWs(s, i + 1)
                IN IF j <= Len(s) /\ Char(s, j) = "]"
                   THEN Parsed(PyList(<<>>), j + 1)
                   ELSE ScanElems(s, i + 1, <<>>)
           [] c = "\"" -> ScanString(s, i + 1, "", TRUE)
           [] c = "n" -> IF StartsWith(s, i, "null") THEN Parsed(None, i + 4) ELSE Failed(s)
           [] c = "t" ->
                IF StartsWith(s, i, "true") THEN Parsed(PyBool(TRUE), i + 4) ELSE Failed(s)
           [] c = "f" ->
                IF StartsWith(s, i, "false") THEN Parsed(PyBool(FALSE), i + 5)
                ELSE Failed(s)
           [] c = "N" ->
                IF StartsWith(s, i, "NaN") THEN Parsed(PyNaN, i + 3) ELSE Failed(s)
           [] c = "I" ->
                IF StartsWith(s, i, "Infinity") THEN Parsed(PyInf(FALSE), i + 8)
                ELSE Failed(s)
           [] c = "-" /\ StartsWith(s, i, "-Infinity") -> Parsed(PyInf(TRUE), i + 9)
           [] c = "-" \/ IsDigit(c) -> ScanNumber(s, i)
           [] OTHER -> Failed(s)

\* Whether a scanned value holds, at any depth, a value outside the model.
RECURSIVE HasUnmodelled(_)
HasUnmodelled(x) ==
    CASE x.t = "unmodelled" -> TRUE
      [] x.t = "list" -> \E j \in 1..Len(x.items) : HasUnmodelled(x.items[j])
      [] x.t = "dict" -> \E j \in 1..Len(x.items) : HasUnmodelled(x.items[j][2])
      [] OTHER -> FALSE

json_loads(s) ==
    LET r == ScanValue(s, 1)
    IN IF r.v.t = "raise" THEN r.v
       ELSE IF SkipWs(s, r.next) # Len(s) + 1 THEN JSONDecodeError
       ELSE IF HasUnmodelled(r.v) THEN NotModelled
       ELSE r.v

(***************************************************************************)
(* app.py: the sample users and the endpoint's handler.                    *)
(***************************************************************************)
User(id, name, email, age) ==
    PyDict(<< <<"id", PyInt(id)>>, <<"name", PyStr(name)>>,
              <<"email", PyStr(email)>>, <<"age", PyInt(age)>> >>)

users_db ==
    [i \in 1..3 |->
        CASE i = 1 -> User(1, "Manas", "manas@example.com", 25)
          [] i = 2 -> User(2, "omkar", "omkar@example.com", 29)
          [] i = 3 -> User(3, "anand", "anand@example.com", 27)]

\* users_db.get(user_id): a key matches by == and hash, so True and 1.0 find
\* user 1; a list or a dict cannot be hashed.
users_db_get(user_id) ==
    CASE user_id.t \in {"list", "dict"} -> Unhashable
      [] IsNumber(user_id) /\ \E i \in DOMAIN users_db : NumEq(PyInt(i), user_id) ->
           users_db[CHOOSE i \in DOMAIN users_db : NumEq(PyInt(i), user_id)]
      [] OTHER -> None

get_user_details(user_id) ==
    LET user == users_db_get(user_id)
    IN IF user.t = "raise" THEN user
       ELSE IF ~Truthy(user) THEN HTTPException(404, "User not found")
       ELSE Return(user)

\* A second coroutine handed to the decorator: any handler other than the
\* user endpoint, told apart from it by what it returns.
other_handler(user_id) ==
    Return(PyDict(<< <<"id", user_id>>, <<"name", PyStr("other")>> >>))

(***************************************************************************)
(* A call's arguments: args is the tuple of positional arguments, kwargs   *)
(* the sequence of <<name, value>> keyword arguments.                      *)
(***************************************************************************)
HasKw(kwargs, name) == \E i \in 1..Len(kwargs) : kwargs[i][1] = name

\* kwargs.get(name)
kwargs_get(kwargs, name) ==
    IF HasKw(kwargs, name)
    THEN kwargs[CHOOSE i \in 1..Len(kwargs) : kwargs[i][1] = name][2]
    ELSE None

\* Python binding *args, **kwargs to the one parameter user_id: the bound
\* value, or the TypeError of a call that gives it twice, not at all, or gives
\* a keyword the handler does not take.
BindUserId(args, kwargs) ==
    CASE Len(args) > 1 -> TypeError
      [] \E i \in 1..Len(kwargs) : kwargs[i][1] # "user_id" -> TypeError
      [] Len(args) = 1 /\ HasKw(kwargs, "user_id") -> TypeError
      [] Len(args) = 1 -> Return(args[1])
      [] HasKw(kwargs, "user_id") -> Return(kwargs_get(kwargs, "user_id"))
      [] OTHER -> TypeError

\* await func(*args, **kwargs)
CallFunc(func, args, kwargs) ==
    LET b == BindUserId(args, kwargs)
    IN IF b.t = "raise" THEN b
       ELSE CASE func = "get_user_details" -> get_user_details(b.v)
              [] func = "other_handler" -> other_handler(b.v)

(***************************************************************************)
(* decorator.py: cache_response(ttl, namespace) and the decorated          *)
(* handlers.  The application decorates get_user_details with ttl 120 and  *)
(* namespace "users"; two more handlers are decorated with the defaults.   *)
(***************************************************************************)
DefaultTtl == 60
DefaultNamespace == "main"
UsersTtl == 120
UsersNamespace == "users"

\* A decorator that drops its ttl argument and always uses the default.
cache_response_default_ttl(func, ttl, namespace) ==
    [func |-> func, ttl |-> DefaultTtl, namespace |-> namespace]

cache_response(func, ttl, namespace) ==
    [func |-> func, ttl |-> ttl, namespace |-> namespace]

Decorated(h) ==
    CASE h = "app.get_user_details" ->
            cache_response("get_user_details", UsersTtl, UsersNamespace)
      [] h = "default.get_user_details" ->
            cache_response("get_user_details", DefaultTtl, DefaultNamespace)
      [] h = "default.other_handler" ->
            cache_response("other_handler", DefaultTtl, DefaultNamespace)

AppHandlers == {"app.get_user_details"}
DefaultHandlers == {"default.get_user_details", "default.other_handler"}

\* kwargs.get('user_id') or args[0]
IdentifyingArgument(args, kwargs) ==
    LET named == kwargs_get(kwargs, "user_id")
    IN IF Truthy(named) THEN Return(named)
       ELSE IF Len(args) >= 1 THEN Return(args[1])
       ELSE IndexError

\* A key that leaves the identifier out.
CacheKeyNoId(namespace, user_id) == namespace \o ":user"

\* f"{namespace}:user:{user_id}"
CacheKey(namespace, user_id) == namespace \o ":user:" \o PyStrOf(user_id)

\* A hit test that never succeeds.
IsHitNever(cached_value) == FALSE

\* if cached_value:
IsHit(cached_value) == Truthy(cached_value)

\* A caching error that loses the cause.
CachingErrorNoCause(e) == HTTPException(500, "Error caching data")

\* raise HTTPException(status_code=500, detail=f"Error caching data: {e}")
CachingError(e) == HTTPException(500, "Error caching data: " \o e)

(***************************************************************************)
(* The store: key -> entry.  An entry holds the text given to set and the  *)
(* instant it expires; obj and by record the object that was serialized    *)
(* and the decorated handler that wrote it.                                *)
(***************************************************************************)
Live(st, key, t) == key \in DOMAIN st /\ st[key].exp > t

\* await cache.get(cache_key)
cache_get(st, key, t) == IF Live(st, key, t) THEN PyStr(st[key].value) ELSE None

\* A cache.set that is never awaited: the write does not happen.
cache_set_not_awaited(st, key, value, ttl, t, obj, by) == st

\* await cache.set(cache_key, value, ttl=ttl)
cache_set(st, key, value, ttl, t, obj, by) ==
    [k \in DOMAIN st \cup {key} |->
        IF k = key THEN [value |-> value, exp |-> t + ttl, obj |-> obj, by |-> by]
        ELSE st[k]]

\* The store dropping the entries whose time to live has elapsed.
Expire(st, t) == [k \in {x \in DOMAIN st : st[x].exp > t} |-> st[k]]

\* Messages of the exceptions a store operation may raise.
StoreErrors == {"Connection refused", "Timeout reading from socket"}

(***************************************************************************)
(* State.  Each request is handled by its own task, which runs one         *)
(* invocation of a wrapped handler:                                        *)
(*   idle    not called yet                                                *)
(*   get     key derived, cache.get awaited (line 22)                      *)
(*   resume  cache.get has answered; the task has not run on yet           *)
(*   set     handler returned, cache.set awaited (line 31)                 *)
(*   written the store has applied cache.set; the task has not run on yet  *)
(*   done    the invocation has returned or raised; result holds which     *)
(* The store and the clock are shared.  The remaining variables record     *)
(* history: what an invocation did and saw, and per key the handler runs   *)
(* since the key's entry last expired.                                     *)
(***************************************************************************)
VARIABLES pc, handler, args, kwargs, cache_key, cached_value, response, result,
          store, now,
          ncalls, nreads, nwrites, readLive, readFrom, prior, fault, wroteAt, runs

vars == <<pc, handler, args, kwargs, cache_key, cached_value, response, result,
          store, now,
          ncalls, nreads, nwrites, readLive, readFrom, prior, fault, wroteAt, runs>>

taskVars == <<handler, args, kwargs, cache_key, cached_value, response, result>>
histVars == <<ncalls, nreads, nwrites, readLive, readFrom, prior, fault, wroteAt>>

\* The calls made, as <<args, kwargs>>: the identifier given positionally, by
\* name, both ways (positionally 1, by name 0 or 99; by name 1 the wrapper does
\* what it does by name 0, line 16 taking args[0] = 1 for both) or not at all.
Positional(i) == <<PyInt(i)>>
Named(i) == << <<"user_id", PyInt(i)>> >>
CallShapes ==
    {<<Positional(i), <<>> >> : i \in Ids}
    \cup {<< <<>>, Named(i)>> : i \in Ids}
    \cup {<<Positional(1), Named(i)>> : i \in Ids \ {1}}
    \cup {<< <<>>, <<>> >>}

At(f, k, d) == IF k \in DOMAIN f THEN f[k] ELSE d
Upd(f, k, v) == [x \in DOMAIN f \cup {k} |-> IF x = k THEN v ELSE f[x]]

NoFault == [op |-> "none", e |-> ""]

\* The invocations for p's key whose entry the store has taken, and those of
\* them that have returned.
Writers(p) == {q \in Tasks \ {p} : wroteAt[q] >= 0 /\ cache_key[q] = cache_key[p]}
Fillers(p) == {q \in Writers(p) : pc[q] = "done"}
InTtl(q, t) == t < wroteAt[q] + Decorated(handler[q]).ttl

\* What came before p's store read at instant t: no invocation for the key has
\* written an entry ("cold"); one has written and returned and its entry's time
\* to live has not elapsed ("warm"); an entry's time to live has not elapsed
\* but its writer has not returned yet ("filling"); or the time to live of
\* every entry written for the key has elapsed ("expired").
Prior(p, t) ==
    IF Writers(p) = {} THEN "cold"
    ELSE IF \E q \in Fillers(p) : InTtl(q, t) THEN "warm"
    ELSE IF \E q \in Writers(p) : InTtl(q, t) THEN "filling"
    ELSE "expired"

Init ==
    /\ pc = [p \in Tasks |-> "idle"]
    /\ handler = [p \in Tasks |-> ""]
    /\ args = [p \in Tasks |-> <<>>]
    /\ kwargs = [p \in Tasks |-> <<>>]
    /\ cache_key = [p \in Tasks |-> ""]
    /\ cached_value = [p \in Tasks |-> None]
    /\ response = [p \in Tasks |-> None]
    /\ result = [p \in Tasks |-> None]
    /\ store = <<>>
    /\ now = 0
    /\ ncalls = [p \in Tasks |-> 0]
    /\ nreads = [p \in Tasks |-> 0]
    /\ nwrites = [p \in Tasks |-> 0]
    /\ readLive = [p \in Tasks |-> FALSE]
    /\ readFrom = [p \in Tasks |-> ""]
    /\ prior = [p \in Tasks |-> ""]
    /\ fault = [p \in Tasks |-> NoFault]
    /\ wroteAt = [p \in Tasks |-> -1]
    /\ runs = <<>>

\* wrapper(*args, **kwargs), lines 16-22: derive the key and issue cache.get;
\* a failing args[0] ends the invocation with IndexError.
Call(p, h, a, kw) ==
    /\ pc[p] = "idle"
    /\ \A q \in Tasks : q < p => pc[q] # "idle"
    /\ handler' = [handler EXCEPT ![p] = h]
    /\ args' = [args EXCEPT ![p] = a]
    /\ kwargs' = [kwargs EXCEPT ![p] = kw]
    /\ LET user_id == IdentifyingArgument(a, kw)
       IN IF user_id.t = "raise"
          THEN /\ result' = [result EXCEPT ![p] = user_id]
               /\ pc' = [pc EXCEPT ![p] = "done"]
               /\ UNCHANGED cache_key
          ELSE /\ cache_key' = [cache_key EXCEPT
                                   ![p] = CacheKey(Decorated(h).namespace, user_id.v)]
               /\ pc' = [pc EXCEPT ![p] = "get"]
               /\ UNCHANGED result
    /\ UNCHANGED <<cached_value, response, store, now, histVars, runs>>

\* The store answers cache.get (line 22).
CacheGet(p) ==
    /\ pc[p] = "get"
    /\ cached_value' = [cached_value EXCEPT ![p] = cache_get(store, cache_key[p], now)]
    /\ nreads' = [nreads EXCEPT ![p] = @ + 1]
    /\ readLive' = [readLive EXCEPT ![p] = Live(store, cache_key[p], now)]
    /\ readFrom' = [readFrom EXCEPT
                        ![p] = IF Live(store, cache_key[p], now) THEN store[cache_key[p]].by
                               ELSE ""]
    /\ prior' = [prior EXCEPT ![p] = Prior(p, now)]
    /\ pc' = [pc EXCEPT ![p] = "resume"]
    /\ UNCHANGED <<handler, args, kwargs, cache_key, response, result, store, now,
                   ncalls, nwrites, fault, wroteAt, runs>>

\* A wrapper that swallows a failing cache.get and carries on as after a miss.
CacheGetFailsAsMiss(p, e) ==
    /\ pc[p] = "get"
    /\ nreads' = [nreads EXCEPT ![p] = @ + 1]
    /\ fault' = [fault EXCEPT ![p] = [op |-> "get", e |-> e]]
    /\ cached_value' = [cached_value EXCEPT ![p] = None]
    /\ pc' = [pc EXCEPT ![p] = "resume"]
    /\ UNCHANGED <<handler, args, kwargs, cache_key, response, result, store, now,
                   ncalls, nwrites, readLive, readFrom, prior, wroteAt, runs>>

\* cache.get raises (line 22): nothing catches it.  A failed read changes
\* nothing another task can see, so the failure and its propagation are one step.
CacheGetFails(p, e) ==
    /\ pc[p] = "get"
    /\ nreads' = [nreads EXCEPT ![p] = @ + 1]
    /\ fault' = [fault EXCEPT ![p] = [op |-> "get", e |-> e]]
    /\ result' = [result EXCEPT ![p] = Raise("RedisError", 0, e)]
    /\ pc' = [pc EXCEPT ![p] = "done"]
    /\ UNCHANGED <<handler, args, kwargs, cache_key, cached_value, response, store, now,
                   ncalls, nwrites, readLive, readFrom, prior, wroteAt, runs>>

\* A hit that also renews the entry's time to live (sliding expiration).
ReturnCachedTouch(p) ==
    /\ pc[p] = "resume"
    /\ IsHit(cached_value[p])
    /\ LET v == json_loads(cached_value[p].v)
       IN result' = [result EXCEPT ![p] = IF v.t = "raise" THEN v ELSE Return(v)]
    /\ pc' = [pc EXCEPT ![p] = "done"]
    /\ store' = [k \in DOMAIN store |->
                    IF k = cache_key[p]
                    THEN [store[k] EXCEPT !.exp = now + Decorated(handler[p]).ttl]
                    ELSE store[k]]
    /\ UNCHANGED <<handler, args, kwargs, cache_key, cached_value, response, now,
                   histVars, runs>>

\* Lines 23-24: a hit returns json.loads(cached_value).
ReturnCached(p) ==
    /\ pc[p] = "resume"
    /\ IsHit(cached_value[p])
    /\ LET v == json_loads(cached_value[p].v)
       IN result' = [result EXCEPT ![p] = IF v.t = "raise" THEN v ELSE Return(v)]
    /\ pc' = [pc EXCEPT ![p] = "done"]
    /\ UNCHANGED <<handler, args, kwargs, cache_key, cached_value, response, store, now,
                   histVars, runs>>

\* A wrapper with single-flight coordination: a task that missed waits while
\* another task is writing the same key.
MayCallHandlerSingleFlight(p) ==
    /\ pc[p] = "resume"
    /\ ~IsHit(cached_value[p])
    /\ \A q \in Tasks \ {p} : ~(pc[q] = "set" /\ cache_key[q] = cache_key[p])

\* Lines 23-27: the wrapper goes on to the handler as soon as cache.get has
\* answered with nothing; it takes no lock and waits for no other task.
MayCallHandler(p) ==
    /\ pc[p] = "resume"
    /\ ~IsHit(cached_value[p])

\* A wrapper that turns what the handler raises into an error body and goes
\* on to cache it like a result.
CallHandlerCachesErrors(p) ==
    /\ MayCallHandler(p)
    /\ LET r == CallFunc(Decorated(handler[p]).func, args[p], kwargs[p])
           ran == BindUserId(args[p], kwargs[p]).t # "raise"
       IN /\ ncalls' = [ncalls EXCEPT ![p] = IF ran THEN @ + 1 ELSE @]
          /\ runs' = IF ran THEN Upd(runs, cache_key[p], At(runs, cache_key[p], 0) + 1)
                     ELSE runs
          /\ response' = [response EXCEPT
                             ![p] = IF r.t = "raise"
                                    THEN PyDict(<< <<"detail", PyStr(r.detail)>> >>)
                                    ELSE r.v]
          /\ pc' = [pc EXCEPT ![p] = "set"]
          /\ UNCHANGED result
    /\ UNCHANGED <<handler, args, kwargs, cache_key, cached_value, store, now,
                   nreads, nwrites, readLive, readFrom, prior, fault, wroteAt>>

\* Lines 27-31: a miss calls the handler; what it raises propagates, what it
\* returns is serialized and cache.set is issued.
CallHandler(p) ==
    /\ MayCallHandler(p)
    /\ LET r == CallFunc(Decorated(handler[p]).func, args[p], kwargs[p])
           ran == BindUserId(args[p], kwargs[p]).t # "raise"
       IN /\ ncalls' = [ncalls EXCEPT ![p] = IF ran THEN @ + 1 ELSE @]
          /\ runs' = IF ran THEN Upd(runs, cache_key[p], At(runs, cache_key[p], 0) + 1)
                     ELSE runs
          /\ IF r.t = "raise"
             THEN /\ result' = [result EXCEPT ![p] = r]
                  /\ pc' = [pc EXCEPT ![p] = "done"]
                  /\ UNCHANGED response
             ELSE /\ response' = [response EXCEPT ![p] = r.v]
                  /\ pc' = [pc EXCEPT ![p] = "set"]
                  /\ UNCHANGED result
    /\ UNCHANGED <<handler, args, kwargs, cache_key, cached_value, store, now,
                   nreads, nwrites, readLive, readFrom, prior, fault, wroteAt>>

\* The store performs cache.set (line 31) while the task is suspended in the
\* await: other tasks see the entry before the writer has run on.
CacheSet(p) ==
    /\ pc[p] = "set"
    /\ store' = cache_set(store, cache_key[p], json_dumps(response[p]),
                          Decorated(handler[p]).ttl, now, response[p], handler[p])
    /\ nwrites' = [nwrites EXCEPT ![p] = @ + 1]
    /\ wroteAt' = [wroteAt EXCEPT ![p] = now]
    /\ pc' = [pc EXCEPT ![p] = "written"]
    /\ UNCHANGED <<handler, args, kwargs, cache_key, cached_value, response, result, now,
                   ncalls, nreads, readLive, readFrom, prior, fault, runs>>

\* The task resumes after cache.set and returns response (line 35).
ReturnResponse(p) ==
    /\ pc[p] = "written"
    /\ result' = [result EXCEPT ![p] = Return(response[p])]
    /\ pc' = [pc EXCEPT ![p] = "done"]
    /\ UNCHANGED <<handler, args, kwargs, cache_key, cached_value, response, store, now,
                   histVars, runs>>

\* cache.set raises (lines 32-33): re-raised as the caching error.  A failed
\* write changes nothing another task can see, so the store's failure and the
\* task's resumption in the except clause are one step.
CacheSetFails(p, e) ==
    /\ pc[p] = "set"
    /\ nwrites' = [nwrites EXCEPT ![p] = @ + 1]
    /\ fault' = [fault EXCEPT ![p] = [op |-> "set", e |-> e]]
    /\ result' = [result EXCEPT ![p] = CachingError(e)]
    /\ pc' = [pc EXCEPT ![p] = "done"]
    /\ UNCHANGED <<handler, args, kwargs, cache_key, cached_value, response, store, now,
                   ncalls, nreads, readLive, readFrom, prior, wroteAt, runs>>

\* Time passes; the store drops the entries that have expired.
Tick ==
    /\ now + TickStep <= MaxTime
    /\ now' = now + TickStep
    /\ store' = Expire(store, now')
    /\ runs' = [k \in {x \in DOMAIN runs : ~(x \in DOMAIN store /\ store[x].exp <= now')}
                  |-> runs[k]]
    /\ UNCHANGED <<pc, taskVars, histVars>>

Step(p) ==
    \/ CacheGet(p)
    \/ \E e \in StoreErrors : CacheGetFails(p, e)
    \/ ReturnCached(p)
    \/ CallHandler(p)
    \/ CacheSet(p)
    \/ ReturnResponse(p)
    \/ \E e \in StoreErrors : CacheSetFails(p, e)

\* The application: requests to the user endpoint.
Next ==
    \/ \E p \in Tasks, c \in CallShapes : Call(p, "app.get_user_details", c[1], c[2])
    \/ \E p \in Tasks : Step(p)
    \/ Tick

Spec == Init /\ [][Next]_vars

\* Several decorated handlers behind one store: the user endpoint and the two
\* handlers decorated with the defaults, called for a user that exists
\* (positionally) or for one that does not (by name).
AllHandlers == AppHandlers \cup DefaultHandlers
DecoShapes == {<<Positional(1), <<>> >>, << <<>>, Named(99)>>}

NextDeco ==
    \/ \E p \in Tasks, h \in AllHandlers, c \in DecoShapes : Call(p, h, c[1], c[2])
    \/ \E p \in Tasks : Step(p)
    \/ Tick

SpecDeco == Init /\ [][NextDeco]_vars

(***************************************************************************)
(* Vocabulary of the properties.                                           *)
(***************************************************************************)
\* The call gives the identifier exactly once, as the handler's signature asks.
WellFormed(p) == pc[p] # "idle" /\ BindUserId(args[p], kwargs[p]).t = "return"
IdOf(p) == BindUserId(args[p], kwargs[p]).v
HasRecord(id) == id.t = "int" /\ id.v \in DOMAIN users_db
Finished(p) == pc[p] = "done"
StoreSucceeded(p) == fault[p].op = "none"
NotFound == [t |-> "raise", exc |-> "HTTPException", status_code |-> 404,
             detail |-> "User not found"]

(***************************************************************************)
(* C1.  For an identifier that has a record and with the store working: a  *)
(* call that finds the cache cold runs the handler exactly once and        *)
(* returns the record; a call whose store read comes after an earlier call *)
(* for the key has filled the cache and returned, and before that entry's  *)
(* TTL has elapsed, returns the same record and runs the handler no times. *)
(***************************************************************************)
C1_ColdMissThenWarmHit ==
    \A p \in Tasks :
        (Finished(p) /\ WellFormed(p) /\ HasRecord(IdOf(p)) /\ StoreSucceeded(p))
        => /\ ~readLive[p] => (ncalls[p] = 1 /\ result[p] = Return(users_db[IdOf(p).v]))
           /\ prior[p] = "warm" => (ncalls[p] = 0 /\ result[p] = Return(users_db[IdOf(p).v]))

\* A first call has missed, run the handler once and returned the record; time
\* has passed, within the TTL, and a second call has returned the same record
\* without running the handler.
C1_Witness ==
    /\ Finished(1) /\ Finished(2)
    /\ prior[1] = "cold" /\ ~readLive[1] /\ ncalls[1] = 1 /\ wroteAt[1] = 0
    /\ prior[2] = "warm" /\ ncalls[2] = 0
    /\ now > 0
    /\ result[1] = Return(users_db[1]) /\ result[2] = result[1]

(***************************************************************************)
(* C2 as stated.  The handler runs at most once for a key between two      *)
(* expiries of the key's entry, whatever the interleaving.                 *)
(***************************************************************************)
C2_AtMostOneRunPerWindow == \A k \in DOMAIN runs : runs[k] <= 1

(***************************************************************************)
(* C2 amended.  An invocation whose store read finds the key's live entry  *)
(* never runs the handler, no invocation runs it more than once, and the   *)
(* handler runs for a key since its entry last expired never exceed the    *)
(* invocations for that key whose store read missed.                       *)
(***************************************************************************)
Missed(k) ==
    {p \in Tasks : cache_key[p] = k /\ nreads[p] = 1 /\ fault[p].op # "get" /\ ~readLive[p]}

C2_RunsOnlyAfterMiss ==
    /\ \A p \in Tasks : ncalls[p] <= 1 /\ (readLive[p] => ncalls[p] = 0)
    /\ \A k \in DOMAIN runs : runs[k] <= Cardinality(Missed(k))

\* One invocation has run the handler and filled the cache; a later one for the
\* same key found the entry and returned without running it.
C2_Witness ==
    \E p, q \in Tasks :
        /\ p # q /\ Finished(p) /\ Finished(q) /\ cache_key[p] = cache_key[q]
        /\ ncalls[p] = 1 /\ wroteAt[p] >= 0
        /\ readLive[q] /\ ncalls[q] = 0 /\ result[q].t = "return"
        /\ runs[cache_key[p]] = 1

(***************************************************************************)
(* C3.  A call for an identifier that has no record ends with the          *)
(* handler's not-found error (404, "User not found") and performs no store *)
(* write, so the store holds no entry for that identifier's key.           *)
(***************************************************************************)
C3_NotFoundPropagates ==
    \A p \in Tasks :
        (Finished(p) /\ WellFormed(p) /\ ~HasRecord(IdOf(p)) /\ StoreSucceeded(p))
        => /\ result[p] = NotFound
           /\ nwrites[p] = 0
           /\ CacheKey(Decorated(handler[p]).namespace, IdOf(p)) \notin DOMAIN store

(***************************************************************************)
(* C4.  When cache.set fails in a call that missed the cache, the handler  *)
(* has run exactly once and returned the record, and the caller gets       *)
(* status 500 with detail "Error caching data: <cause>", not the record.   *)
(***************************************************************************)
C4_WriteFailureIsCachingError ==
    \A p \in Tasks :
        fault[p].op = "set"
        => /\ Finished(p)
           /\ ~readLive[p] /\ ncalls[p] = 1
           /\ get_user_details(IdOf(p)) = Return(response[p])
           /\ result[p] = [t |-> "raise", exc |-> "HTTPException", status_code |-> 500,
                           detail |-> "Error caching data: " \o fault[p].e]
           /\ result[p] # Return(response[p])

\* A write has failed with one cause, another with a different cause.
C4_Witness ==
    /\ fault[1].op = "set" /\ fault[2].op = "set" /\ fault[1].e # fault[2].e
    /\ result[1].status_code = 500 /\ result[2].status_code = 500
    /\ result[1].detail # result[2].detail

(***************************************************************************)
(* C5 as stated.  A successful write stores the entry with the decorator's *)
(* ttl (120 for the user endpoint, 60 by default); a call whose read comes *)
(* after the earlier entries of its key have expired runs the handler      *)
(* again; and while the key's entry is in the store no call for the key    *)
(* runs the handler.                                                       *)
(***************************************************************************)
ConfiguredTtl(h) == IF h = "app.get_user_details" THEN 120 ELSE 60

Writes(p) == pc[p] = "set" /\ pc'[p] = "written" /\ wroteAt'[p] >= 0
RunsHandler(p) == ncalls'[p] = ncalls[p] + 1
LeavesResume(p) == pc[p] = "resume" /\ pc'[p] # "resume"

FreshEntryOnWrite(p) ==
    Writes(p) => /\ cache_key[p] \in DOMAIN store'
                 /\ store'[cache_key[p]].exp = now + ConfiguredTtl(handler[p])
                 /\ store'[cache_key[p]].value = json_dumps(response[p])

MissAfterExpiry(p) ==
    (LeavesResume(p) /\ prior[p] = "expired" /\ WellFormed(p))
    => (~IsHit(cached_value[p]) /\ RunsHandler(p))

C5_NoRunWhileEntryLive ==
    [][\A p \in Tasks :
          /\ FreshEntryOnWrite(p)
          /\ MissAfterExpiry(p)
          /\ RunsHandler(p) => ~Live(store, cache_key[p], now)]_vars

(***************************************************************************)
(* C5 amended.  As stated, except for the last part: no call whose own     *)
(* store read found the key's entry runs the handler (a call that read     *)
(* before the entry was written may still run it while the entry is live). *)
(***************************************************************************)
C5_MissAfterExpiry ==
    [][\A p \in Tasks :
          /\ FreshEntryOnWrite(p)
          /\ MissAfterExpiry(p)
          /\ RunsHandler(p) => ~readLive[p]]_vars

\* The user endpoint's entry written at 0 has expired at 120; the next call
\* missed, ran the handler and wrote an entry that lives until 240.
C5_Witness ==
    /\ handler[2] = "app.get_user_details" /\ Finished(2)
    /\ prior[2] = "expired" /\ ncalls[2] = 1 /\ wroteAt[2] = 120
    /\ wroteAt[1] = 0 /\ ncalls[1] = 1
    /\ Live(store, "users:user:1", now) /\ store["users:user:1"].exp = 240

(***************************************************************************)
(* C6.  With the store working, a call to the wrapped handler returns or   *)
(* raises exactly what the handler called directly with the same           *)
(* arguments returns or raises.                                            *)
(***************************************************************************)
C6_SameAsDirectCall ==
    \A p \in Tasks :
        (Finished(p) /\ WellFormed(p) /\ StoreSucceeded(p))
        => result[p] = CallFunc(Decorated(handler[p]).func, args[p], kwargs[p])

(***************************************************************************)
(* C7.  json.loads of the json.dumps of a record is the record, field by   *)
(* field, for every user of users_db; so a hit, which returns json.loads   *)
(* of the stored text, returns what the miss that stored it returned.      *)
(***************************************************************************)
Field(d, name) == kwargs_get(d.items, name)
SameFields(a, b) ==
    \A f \in {"id", "name", "email", "age"} : Field(a, f) = Field(b, f) /\ Field(a, f) # None

UsersRoundTrip ==
    \A i \in DOMAIN users_db :
        /\ json_loads(json_dumps(users_db[i])) = users_db[i]
        /\ SameFields(json_loads(json_dumps(users_db[i])), users_db[i])

\* The round trip of the three users does not depend on the state: it is
\* evaluated before the first request.
C7_RoundTrip ==
    /\ (\A p \in Tasks : pc[p] = "idle") => UsersRoundTrip
    /\ \A p, q \in Tasks :
          (/\ Finished(p) /\ Finished(q) /\ cache_key[p] = cache_key[q]
           /\ wroteAt[q] >= 0 /\ readLive[p] /\ StoreSucceeded(p))
          => result[p] = result[q]

\* An entry written on a miss has been read back on a hit.
C7_Witness ==
    \E p, q \in Tasks :
        /\ Finished(p) /\ Finished(q) /\ cache_key[p] = cache_key[q]
        /\ wroteAt[q] >= 0 /\ readLive[p] /\ IsHit(cached_value[p])
        /\ cached_value[p].v = json_dumps(users_db[1])
        /\ result[p] = Return(users_db[1]) /\ result[q] = result[p]

(***************************************************************************)
(* C8.  For an identifier passed positionally or by name, whatever its     *)
(* value (0 included), the wrapper derives the key                         *)
(* namespace:user:identifier and goes on to the store read: key derivation *)
(* does not fail.                                                          *)
(***************************************************************************)
C8_KeyDerived ==
    \A p \in Tasks :
        WellFormed(p)
        => /\ result[p] # IndexError
           /\ cache_key[p] = Decorated(handler[p]).namespace \o ":user:" \o IntStr(IdOf(p).v)

(***************************************************************************)
(* C9.  A cache key identifies one decorated handler's one input: an       *)
(* invocation is only ever served an entry written by its own handler.     *)
(***************************************************************************)
C9_ServedOwnEntriesOnly ==
    \A p \in Tasks : (Finished(p) /\ readFrom[p] # "") => readFrom[p] = handler[p]

(***************************************************************************)
(* C10.  Nothing holds back a task that has missed: it may call the        *)
(* handler whatever the other tasks are doing.  When two                   *)
(* invocations for one key both missed before either wrote, each has run   *)
(* the handler once and written once, and both return the record.          *)
(***************************************************************************)
Stampede(p, q) ==
    /\ p # q /\ Finished(p) /\ Finished(q) /\ cache_key[p] = cache_key[q]
    /\ ~readLive[p] /\ ~readLive[q]
    /\ wroteAt[p] >= 0 /\ wroteAt[q] >= wroteAt[p]
    /\ wroteAt[q] < wroteAt[p] + Decorated(handler[p]).ttl

C10_StampedeNotExcluded ==
    /\ \A p \in Tasks : (pc[p] = "resume" /\ cached_value[p] = None) => MayCallHandler(p)
    /\ \A p, q \in Tasks :
          Stampede(p, q)
          => /\ ncalls[p] = 1 /\ ncalls[q] = 1 /\ nwrites[p] = 1 /\ nwrites[q] = 1
             /\ result[p] = Return(users_db[IdOf(p).v]) /\ result[q] = result[p]

\* Both tasks have read a miss for user 1 and neither has written yet ...
C10_BothMissed ==
    /\ cache_key[1] = "users:user:1" /\ cache_key[2] = "users:user:1"
    /\ pc[1] = "set" /\ pc[2] = "set"
    /\ ncalls[1] = 1 /\ ncalls[2] = 1 /\ store = <<>>

\* ... and both have then written and returned the record.
C10_Witness ==
    /\ Stampede(1, 2) /\ cache_key[1] = "users:user:1"
    /\ ncalls[1] = 1 /\ ncalls[2] = 1 /\ nwrites[1] = 1 /\ nwrites[2] = 1
    /\ runs["users:user:1"] = 2
    /\ result[1] = Return(users_db[1]) /\ result[2] = Return(users_db[1])

(***************************************************************************)
(* C11.  On a hit (cache.get answered with a non-empty text) the wrapper's *)
(* next step returns json.loads of that text: the handler is not run, no   *)
(* cache.set is issued, and neither the read nor the return changes the    *)
(* store, the entry's expiry instant included.                             *)
(***************************************************************************)
ReadsHit(p) == pc[p] = "get" /\ pc'[p] = "resume" /\ IsHit(cached_value'[p])
LeavesHit(p) == pc[p] = "resume" /\ IsHit(cached_value[p]) /\ pc'[p] # pc[p]

C11_HitLeavesStoreAlone ==
    [][\A p \in Tasks :
          /\ ReadsHit(p)
             => /\ store' = store
                /\ cached_value'[p] = PyStr(store[cache_key[p]].value)
          /\ LeavesHit(p)
             => /\ pc'[p] = "done"
                /\ result'[p] = Return(json_loads(cached_value[p].v))
                /\ store' = store
                /\ ncalls' = ncalls /\ nwrites' = nwrites /\ runs' = runs
                /\ ncalls[p] = 0 /\ nwrites[p] = 0 /\ wroteAt'[p] = -1]_vars

\* An entry written at 0 has been served at 60 to a call that ran no handler
\* and wrote nothing; the entry still expires at 120.
C11_Witness ==
    /\ Finished(1) /\ Finished(2) /\ wroteAt[1] = 0 /\ now = 60
    /\ IsHit(cached_value[2]) /\ cached_value[2].v = json_dumps(users_db[1])
    /\ result[2] = Return(users_db[1])
    /\ ncalls[2] = 0 /\ nwrites[2] = 0 /\ wroteAt[2] = -1
    /\ runs["users:user:1"] = 1
    /\ store["users:user:1"].exp = 120 /\ store["users:user:1"].by = handler[1]

(***************************************************************************)
(* C12.  A failing store read ends the invocation at once with the store's *)
(* own exception: not the caching error, not a miss; the handler is not    *)
(* run and no cache.set is issued.  An invocation ends with the caching    *)
(* error exactly when its cache.set failed.                                *)
(***************************************************************************)
ReadFailed(p) == fault[p].op = "get"
WriteFailed(p) == fault[p].op = "set"
IsCachingError(r) ==
    r.t = "raise" /\ r.exc = "HTTPException" /\ r.status_code = 500

C12_ReadFailurePropagates ==
    \A p \in Tasks :
        /\ ReadFailed(p)
           => /\ Finished(p) /\ ~MayCallHandler(p)
              /\ result[p] = Raise("RedisError", 0, fault[p].e)
              /\ ~IsCachingError(result[p]) /\ result[p] # CachingError(fault[p].e)
              /\ cached_value[p] = None /\ response[p] = None
              /\ nreads[p] = 1 /\ ncalls[p] = 0 /\ nwrites[p] = 0 /\ wroteAt[p] = -1
        /\ Finished(p)
           => /\ IsCachingError(result[p]) <=> WriteFailed(p)
              /\ WriteFailed(p) => result[p] = CachingError(fault[p].e)

\* One call's store read has failed and it ended with the store's exception,
\* nothing run and nothing written; another call's write has failed with the
\* same cause and it ended with the caching error.
C12_Witness ==
    /\ ReadFailed(1) /\ Finished(1) /\ fault[1].e = "Connection refused"
    /\ result[1] = Raise("RedisError", 0, "Connection refused")
    /\ ncalls[1] = 0 /\ nwrites[1] = 0
    /\ WriteFailed(2) /\ Finished(2) /\ fault[2].e = "Connection refused"
    /\ result[2] = CachingError("Connection refused")
    /\ ncalls[2] = 1 /\ store = <<>>

(***************************************************************************)
(* C13.  Every invocation given its identifier issues exactly one store    *)
(* read first, then at most one handler call, only after a miss, then at   *)
(* most one store write, only after the handler returned; no step is       *)
(* repeated.                                                               *)
(***************************************************************************)
C13_OneReadThenCallThenWrite ==
    \A p \in Tasks :
        WellFormed(p)
        => /\ pc[p] = "get" => (nreads[p] = 0 /\ ncalls[p] = 0 /\ nwrites[p] = 0)
           /\ pc[p] = "resume" => (nreads[p] = 1 /\ ncalls[p] = 0 /\ nwrites[p] = 0)
           /\ pc[p] = "set"
              => /\ nreads[p] = 1 /\ ncalls[p] = 1 /\ nwrites[p] = 0
                 /\ ~IsHit(cached_value[p]) /\ response[p] # None
           /\ pc[p] = "written"
              => /\ nreads[p] = 1 /\ ncalls[p] = 1 /\ nwrites[p] = 1
                 /\ ~IsHit(cached_value[p]) /\ response[p] # None
           /\ Finished(p)
              => /\ nreads[p] = 1
                 /\ ncalls[p] <= 1 /\ nwrites[p] <= 1
                 /\ ncalls[p] = 1 => (~IsHit(cached_value[p]) /\ ~ReadFailed(p))
                 /\ nwrites[p] = 1 => (ncalls[p] = 1 /\ response[p] # None)

(***************************************************************************)
(* C14.  In every state of the application, each entry of the store sits   *)
(* under the key of an identifier for which the handler returns a record   *)
(* and holds the serialization of that record; the key of an identifier    *)
(* for which the handler raises not-found has no entry, and no entry holds *)
(* an error.                                                               *)
(***************************************************************************)
UserKey(i) == CacheKey(UsersNamespace, PyInt(i))

C14_OnlyRecordsStored ==
    /\ \A k \in DOMAIN store :
          /\ store[k].obj.t = "dict"
          /\ \E i \in Ids :
                /\ k = UserKey(i)
                /\ get_user_details(PyInt(i)).t = "return"
                /\ store[k].obj = get_user_details(PyInt(i)).v
                /\ store[k].value = json_dumps(get_user_details(PyInt(i)).v)
    /\ \A i \in Ids :
          UserKey(i) \in DOMAIN store => get_user_details(PyInt(i)) # NotFound

\* User 1's record has been stored; a call for 99 has run the handler, which
\* raised not-found, and a call whose write failed has ended: the store holds
\* user 1's entry and nothing else.
C14_Witness ==
    /\ DOMAIN store = {"users:user:1"}
    /\ store["users:user:1"].value = json_dumps(users_db[1])
    /\ \E p \in Tasks :
          /\ Finished(p) /\ cache_key[p] = "users:user:99"
          /\ ncalls[p] = 1 /\ result[p] = NotFound /\ nwrites[p] = 0

(***************************************************************************)
(* C15.  A step of an invocation leaves every store entry other than the   *)
(* one under its own key as it was, and its store read answers from its    *)
(* own key.  What an invocation ends with comes from its own arguments,    *)
(* its own store failure, or, on a hit, an entry written under its key by  *)
(* an invocation for the same identifying argument: invocations for other  *)
(* identifiers have no part in it.                                         *)
(***************************************************************************)
IdentOf(p) == IdentifyingArgument(args[p], kwargs[p]).v
TaskSteps(p) == pc'[p] # pc[p]
OwnCall(p) == CallFunc(Decorated(handler[p]).func, args[p], kwargs[p])

OtherKeysUntouched(p) ==
    \A k \in (DOMAIN store \cup DOMAIN store') \ {cache_key'[p]} :
        k \in DOMAIN store /\ k \in DOMAIN store' /\ store'[k] = store[k]

ReadsOwnKey(p) ==
    (pc[p] = "get" /\ pc'[p] = "resume")
    => cached_value'[p] = cache_get(store, cache_key[p], now)

ResultIsOwn(p) ==
    pc'[p] = "done"
    => \/ pc[p] = "idle" /\ result'[p] = IndexError
       \/ pc[p] = "get" /\ result'[p] = Raise("RedisError", 0, fault'[p].e)
       \/ /\ pc[p] = "resume" /\ IsHit(cached_value[p])
          /\ \E q \in Tasks \ {p} :
                /\ cache_key[q] = cache_key[p] /\ IdentOf(q) = IdentOf(p)
                /\ wroteAt[q] >= 0
                /\ result'[p] = Return(response[q])
       \/ /\ pc[p] = "resume" /\ ~IsHit(cached_value[p])
          /\ OwnCall(p).t = "raise" /\ result'[p] = OwnCall(p)
       \/ pc[p] = "set" /\ result'[p] = CachingError(fault'[p].e)
       \/ pc[p] = "written" /\ result'[p] = OwnCall(p)

C15_OtherIdentifiersApart ==
    [][\A p \in Tasks :
          TaskSteps(p) => (OtherKeysUntouched(p) /\ ReadsOwnKey(p) /\ ResultIsOwn(p))]_vars

\* Two invocations on the default namespace, for identifiers 1 and 99, have
\* both missed, run their handlers and written: each entry is the one its own
\* invocation wrote and each invocation returned its own handler's result.
C15_Witness ==
    /\ Finished(1) /\ Finished(2)
    /\ cache_key[1] = "main:user:1" /\ cache_key[2] = "main:user:99"
    /\ IdentOf(1) = PyInt(1) /\ IdentOf(2) = PyInt(99)
    /\ wroteAt[1] = 0 /\ wroteAt[2] = 0
    /\ DOMAIN store = {"main:user:1", "main:user:99"}
    /\ store["main:user:1"].value = json_dumps(response[1])
    /\ store["main:user:99"].value = json_dumps(response[2])
    /\ store["main:user:1"].by = handler[1] /\ store["main:user:99"].by = handler[2]
    /\ result[1] = OwnCall(1) /\ result[2] = OwnCall(2)
    /\ response[1] # response[2]

=============================================================================
